---- MODULE Spec2Model ----
(***************************************************************************)
(* Model of the Eduskunta downloader (src/main.py): the token-bucket       *)
(* RateLimiter, fetch_page_with_retry and the eduskunta_table pagination   *)
(* coordinator with its ThreadPoolExecutor workers.                        *)
(*                                                                         *)
(* Time is discrete.  Token counts are fixed-point: one token (the 1.0 of  *)
(* the code) is TokenUnit units, and one tick of time refills one unit, so *)
(* a limiter of rate_limit R has capacity Cap = R * TokenUnit units and    *)
(* one second is Cap ticks.  last_update is kept as its distance to now    *)
(* (age), which never needs to exceed Cap because the refill is capped.    *)
(***************************************************************************)
EXTENDS Integers, Sequences, FiniteSets, TLC

\* ------------------------------------------------------------- bounds
TokenUnit == 2
MaxCap == 4
MaxWorkers == 2
MaxAcquires == 2
MaxTime == 6
MaxRetries == 3
MaxPages == 3
MaxTables == 2
MaxRequested == 2
\* table names in the listings tried for the order of --all
MaxNames == 4

\* ---------------------------------------------------- program constants
PER_PAGE == 100
DefaultRetries == 3
None == -1
\* a local name that was never assigned
Unbound == -2

Main == 0
Workers == 1..MaxWorkers
Threads == {Main} \cup Workers

VARIABLES
  \* configuration and environment
  Cap,             \* rate_limit, in units per second (= ticks per second)
  hasLimiter,      \* the global rate_limiter is not None
  retries,         \* the retries argument of fetch_page_with_retry
  concurrency,     \* max_concurrent_requests
  trueRows,        \* number of rows the upstream table holds
  row_limit,       \* the row_limit keyword passed to eduskunta_table, or None
  show_progress,   \* the show_progress argument of eduskunta_table
  args_all,        \* --all was given
  args_tables,     \* the names given with --tables
  apiTables,       \* the table names the API lists, in its order
  \* main
  all_tables, tables_to_load, ti, attempts, notFound, loadErrors,
  successful_tables, table_summaries, api_row_count,
  \* RateLimiter
  tokens, age, lock,
  \* threads
  pc, ret, sleepLeft, page, attempt, fres, fval, nAcq, nReq, nFail,
  \* eduskunta_table
  row_count,       \* row_counts.get(table_name, None), Unbound if that raised
  total_pages, data, sub_page, queue, future, handled,
  processed_pages, completed, errorPages, retryPages, emit_page, emitted,
  \* some future was yielded by as_completed before one of a lower page
  outOfOrder,
  \* elapsed ticks since the limiter was created (SpecRL only)
  clock,
  \* the last line of the progress display, <<>> when none was printed
  progress

cfgVars == <<Cap, hasLimiter, retries, concurrency, trueRows, row_limit,
            show_progress, args_all, args_tables, apiTables>>
drvVars == <<all_tables, tables_to_load, ti, attempts, notFound, loadErrors,
            successful_tables, table_summaries, api_row_count>>
rlVars == <<tokens, age, lock>>
fVars == <<page, attempt, fres, fval>>
cntVars == <<nAcq, nReq, nFail>>
thVars == <<pc, ret, sleepLeft, fVars, cntVars>>
coRest == <<total_pages, data, sub_page, queue, future, handled,
            processed_pages, completed, errorPages, emit_page, emitted>>
coVars == <<coRest, retryPages, outOfOrder>>
\* observation only: the ghost clock, and the output of the progress display
obsVars == <<clock, progress>>
vars == <<cfgVars, drvVars, rlVars, thVars, row_count, coVars, obsVars>>

\* no response decoded yet
NoData == [rowData |-> <<>>, rowCount |-> None, hasMore |-> FALSE]

Min(a, b) == IF a < b THEN a ELSE b
Max(a, b) == IF a > b THEN a ELSE b

\* ========================================================== RateLimiter

\* threading.Lock: acquirable only when nobody holds it
LockFreeBroken(holders) == TRUE
LockFree(holders) == holders = {}

\* self.tokens = min(self.rate_limit, self.tokens + time_passed * self.rate_limit)
RefillUncapped(tok, elapsed, cap) == tok + elapsed
Refill(tok, elapsed, cap) ==
  Min(cap, tok + (IF cap < 0 THEN 0 - elapsed ELSE elapsed))

\* sleep_time = (1.0 - self.tokens) / self.rate_limit, in ticks
SleepTimeNone(tok) == 0
SleepTime(tok) == TokenUnit - tok

\* (1.0 - self.tokens) / self.rate_limit raises ZeroDivisionError for a rate
\* of 0, and for a negative rate it is negative and time.sleep(sleep_time)
\* raises ValueError
SleepNeverRaises(cap) == FALSE
SleepRaises(cap) == cap <= 0

\* Consume one token: self.tokens -= 1.0
ConsumeAll(tok) == 0
Consume(tok) == tok - TokenUnit

\* after time.sleep(sleep_time): self.tokens = 0.0
TokensAfterSleepKept(tok) == tok
TokensAfterSleep(tok) == 0

\* a caller reaches a call of rate_limiter.acquire() and continues at `back`
\* when it returns; `if rate_limiter:` (use = hasLimiter) skips the call
AcquireSkipped(use, back) == back
AcquireEntry(use, back) == IF use THEN "acq_lock" ELSE back

CallAcquire(t, back, use) ==
  /\ pc' = [pc EXCEPT ![t] = AcquireEntry(use, back)]
  /\ ret' = [ret EXCEPT ![t] = back]

\* `with self.lock:` is entered (the thread blocks until the lock is free);
\* now = time.time(); refill; last_update = now; test tokens < 1.0 and, when
\* short, compute sleep_time and enter time.sleep (the lock stays held); an
\* exception raised there leaves the with block, which releases the lock,
\* and goes to the caller
AcqEnter(t) ==
  /\ pc[t] = "acq_lock"
  /\ LockFree(lock)
  /\ LET tk == Refill(tokens, age, Cap) IN
       /\ tokens' = tk
       /\ age' = 0
       /\ IF tk < TokenUnit
            THEN IF SleepRaises(Cap)
                   THEN /\ pc' = [pc EXCEPT ![t] = "acq_raised"]
                        /\ UNCHANGED <<lock, sleepLeft>>
                   ELSE /\ pc' = [pc EXCEPT ![t] = "acq_sleep"]
                        /\ lock' = lock \cup {t}
                        /\ sleepLeft' = [sleepLeft EXCEPT ![t] = SleepTime(tk)]
            ELSE /\ pc' = [pc EXCEPT ![t] = "acq_consume"]
                 /\ lock' = lock \cup {t}
                 /\ UNCHANGED sleepLeft
  /\ UNCHANGED <<cfgVars, drvVars, row_count, ret, fVars, cntVars, coVars,
                 obsVars>>

\* self.tokens -= 1.0, leave the with block, return
AcqConsume(t) ==
  /\ pc[t] = "acq_consume"
  /\ tokens' = Consume(tokens)
  /\ lock' = lock \ {t}
  /\ pc' = [pc EXCEPT ![t] = ret[t]]
  /\ nAcq' = [nAcq EXCEPT ![t] = @ + 1]
  /\ UNCHANGED <<cfgVars, drvVars, row_count, age, ret, sleepLeft, fVars,
                 nReq, nFail, coVars, obsVars>>

\* time.sleep returned: self.tokens = 0.0; self.last_update = time.time();
\* leave the with block, return
AcqWake(t) ==
  /\ pc[t] = "acq_sleep"
  /\ sleepLeft[t] = 0
  /\ tokens' = TokensAfterSleep(tokens)
  /\ age' = 0
  /\ lock' = lock \ {t}
  /\ pc' = [pc EXCEPT ![t] = ret[t]]
  /\ nAcq' = [nAcq EXCEPT ![t] = @ + 1]
  /\ UNCHANGED <<cfgVars, drvVars, row_count, ret, sleepLeft, fVars, nReq,
                 nFail, coVars, obsVars>>

Acquire(t) == AcqEnter(t) \/ AcqConsume(t) \/ AcqWake(t)

\* one tick of wall-clock time: last_update falls one tick further behind
\* and every sleeping thread has one tick less to sleep
Advance ==
  /\ age' = Min(age + 1, IF Cap < 0 THEN 0 - Cap ELSE Cap)
  /\ sleepLeft' = [t \in Threads |-> Max(sleepLeft[t] - 1, 0)]

Tick ==
  /\ Advance
  /\ UNCHANGED <<cfgVars, drvVars, row_count, tokens, lock, pc, ret, fVars,
                 cntVars, coVars, obsVars>>

\* ------------------------------------------- concurrent acquire() callers

InitThreads ==
  /\ ret = [t \in Threads |-> "idle"]
  /\ sleepLeft = [t \in Threads |-> 0]
  /\ attempt = [t \in Threads |-> 0]
  /\ fres = [t \in Threads |-> "none"]
  /\ fval = [t \in Threads |-> <<>>]
  /\ nAcq = [t \in Threads |-> 0]
  /\ nReq = [t \in Threads |-> 0]
  /\ nFail = [t \in Threads |-> 0]

InitCoordinator ==
  /\ row_count = Unbound
  /\ total_pages = None
  /\ data = NoData
  /\ sub_page = 1
  /\ queue = <<>>
  /\ future = <<>>
  /\ handled = {}
  /\ processed_pages = <<>>
  /\ completed = 0
  /\ errorPages = {}
  /\ retryPages = {}
  /\ outOfOrder = FALSE
  /\ emit_page = 1
  /\ emitted = <<>>

\* one call eduskunta_table(table_name), no command line
NoArgs ==
  /\ row_limit = None
  /\ show_progress = TRUE
  /\ args_all = FALSE
  /\ args_tables = <<>>
  /\ apiTables = <<>>

\* main() is not running
NoDriver ==
  /\ all_tables = <<>>
  /\ tables_to_load = <<>>
  /\ ti = 1
  /\ attempts = <<>>
  /\ notFound = {}
  /\ loadErrors = {}
  /\ successful_tables = 0
  /\ table_summaries = <<>>
  /\ api_row_count = None

\* RateLimiter.__init__: a full bucket, last_update = now
InitLimiter ==
  /\ tokens = Cap
  /\ age = 0
  /\ lock = {}

InitRL ==
  /\ Cap \in 1..MaxCap
  /\ hasLimiter = TRUE
  /\ retries = DefaultRetries
  /\ concurrency = MaxWorkers
  /\ trueRows = 0
  /\ NoArgs
  /\ NoDriver
  /\ InitLimiter
  /\ pc = [t \in Threads |-> "idle"]
  /\ page = [t \in Threads |-> 0]
  /\ InitThreads
  /\ InitCoordinator
  /\ clock = 0
  /\ progress = <<>>

\* a worker thread calls rate_limiter.acquire()
RLCall(t) ==
  /\ pc[t] = "idle"
  /\ nAcq[t] < MaxAcquires
  /\ CallAcquire(t, "idle", hasLimiter)
  /\ UNCHANGED <<cfgVars, drvVars, row_count, rlVars, sleepLeft, fVars,
                 cntVars, coVars, obsVars>>

TickRL ==
  /\ clock < MaxTime
  /\ clock' = clock + 1
  /\ Advance
  /\ UNCHANGED <<cfgVars, drvVars, row_count, tokens, lock, pc, ret, fVars,
                 cntVars, coVars, progress>>

NextRL == TickRL \/ \E t \in Workers : RLCall(t) \/ Acquire(t)

SpecRL == InitRL /\ [][NextRL]_vars

\* ================================================= fetch_page_with_retry

\* the rows of the upstream table are numbered 0 .. n-1; page p of a table
\* of n rows holds rows p*PER_PAGE .. min(n, (p+1)*PER_PAGE) - 1, in order
PageRows(p, n) ==
  [i \in 1..Max(0, Min(n - p * PER_PAGE, PER_PAGE)) |-> p * PER_PAGE + i - 1]

\* the decoded JSON body of GET /tables/{name}/rows?page=p&perPage=100
PageData(p, n) ==
  [rowData |-> PageRows(p, n), rowCount |-> n, hasMore |-> n > (p + 1) * PER_PAGE]

\* `if rate_limiter: rate_limiter.acquire()` at the head of every attempt
AcquireOnFirstAttemptOnly(att) == hasLimiter /\ att = 0
AcquireOnAttempt(att) == hasLimiter

\* `if attempt == retries - 1: raise`
LastAttemptOffByOne(att, k) == att = k
LastAttempt(att, k) == att = k - 1

\* retry_delay = 0.5 * (2 ** attempt) seconds, in ticks (one second = Cap ticks)
RetryDelayConstant(att) == Cap \div 2
RetryDelay(att) == (Cap * (2 ^ att)) \div 2

\* `return page, data`
ReturnValueAttempt(p, body, att) == <<att, body>>
ReturnValue(p, body, att) == <<p, body>>

\* `for attempt in range(retries)`: attempt att is made.  range(k) is empty
\* for k <= 0.
InRetryRangeAtLeastOnce(att, k) == att < k \/ att = 0
InRetryRange(att, k) == att < k

\* the head of `for attempt in range(retries):` for iteration att, then,
\* inside the try, the acquire call; a range that is exhausted falls off the
\* end of the function (returns None)
LoopHead(t, att) ==
  IF InRetryRange(att, retries)
    THEN /\ CallAcquire(t, "request", AcquireOnAttempt(att))
         /\ UNCHANGED fres
    ELSE /\ pc' = [pc EXCEPT ![t] = "fetch_done"]
         /\ fres' = [fres EXCEPT ![t] = "retnone"]
         /\ UNCHANGED ret

\* the call is entered: first iteration
FetchLoop(t) ==
  /\ pc[t] = "fetch_loop"
  /\ LoopHead(t, attempt[t])
  /\ UNCHANGED <<cfgVars, drvVars, row_count, rlVars, sleepLeft, page,
                 attempt, fval, cntVars, coVars, obsVars>>

\* requests.get(url, params, timeout=15); raise_for_status(); json():
\* either the payload is returned, or the attempt raises and the handler
\* re-raises on the last attempt and otherwise prints "Retrying page ..."
\* and starts the backoff sleep
FetchRequest(t) ==
  /\ pc[t] = "request"
  /\ nReq' = [nReq EXCEPT ![t] = @ + 1]
  /\ \E ok \in BOOLEAN :
       IF ok
         THEN /\ pc' = [pc EXCEPT ![t] = "fetch_done"]
              /\ fres' = [fres EXCEPT ![t] = "returned"]
              /\ fval' = [fval EXCEPT ![t] =
                            ReturnValue(page[t], PageData(page[t], trueRows),
                                        attempt[t])]
              /\ UNCHANGED <<sleepLeft, nFail, retryPages>>
         ELSE /\ nFail' = [nFail EXCEPT ![t] = @ + 1]
              /\ UNCHANGED fval
              /\ IF LastAttempt(attempt[t], retries)
                   THEN /\ pc' = [pc EXCEPT ![t] = "fetch_done"]
                        /\ fres' = [fres EXCEPT ![t] = "raised"]
                        /\ UNCHANGED <<sleepLeft, retryPages>>
                   ELSE /\ pc' = [pc EXCEPT ![t] = "backoff"]
                        /\ sleepLeft' = [sleepLeft EXCEPT ![t] =
                                           RetryDelay(attempt[t])]
                        /\ retryPages' = retryPages \cup {page[t]}
                        /\ UNCHANGED fres
  /\ UNCHANGED <<cfgVars, drvVars, row_count, rlVars, ret, page, attempt,
                 nAcq, coRest, outOfOrder, obsVars>>

\* time.sleep(retry_delay) returned: next iteration of the for loop
FetchBackoff(t) ==
  /\ pc[t] = "backoff"
  /\ sleepLeft[t] = 0
  /\ attempt' = [attempt EXCEPT ![t] = @ + 1]
  /\ LoopHead(t, attempt[t] + 1)
  /\ UNCHANGED <<cfgVars, drvVars, row_count, rlVars, sleepLeft, page, fval,
                 cntVars, coVars, obsVars>>

Fetch(t) == FetchLoop(t) \/ FetchRequest(t) \/ FetchBackoff(t)

\* the rate limits for which the backoff is a whole number of ticks
EvenCaps == {c \in 1..MaxCap : c % 2 = 0}

\* the row counts tried: empty, one row, exactly one page, and k pages with
\* a half-filled last page
RowCounts ==
  {0, 1, PER_PAGE} \cup {k * PER_PAGE + PER_PAGE \div 2 : k \in 1..(MaxPages - 1)}

\* every worker thread t is inside one call fetch_page_with_retry(name, t,
\* PER_PAGE, retries), all sharing the limiter (when one was created)
InitFetch ==
  /\ Cap \in EvenCaps
  /\ hasLimiter \in BOOLEAN
  /\ retries \in -1..MaxRetries
  /\ concurrency = MaxWorkers
  /\ trueRows \in {PER_PAGE \div 2, MaxPages * PER_PAGE}
  /\ NoArgs
  /\ NoDriver
  /\ InitLimiter
  /\ pc = [t \in Threads |-> IF t \in Workers THEN "fetch_loop" ELSE "idle"]
  /\ page = [t \in Threads |-> t]
  /\ InitThreads
  /\ InitCoordinator
  /\ clock = 0
  /\ progress = <<>>

NextFetch == Tick \/ \E t \in Workers : Acquire(t) \/ Fetch(t)

SpecFetch == InitFetch /\ [][NextFetch]_vars

\* ======================================================= eduskunta_table

\* total_pages = (row_count + PER_PAGE - 1) // PER_PAGE
TotalPagesFloor(n) == n \div PER_PAGE
TotalPages(n) == (n + PER_PAGE - 1) \div PER_PAGE

\* `if not has_more or total_pages <= 1:` (None <= 1 is a TypeError, told
\* apart by the caller before this is evaluated)
ShortCircuitIgnoringHasMore(hm, tp) == tp # None /\ tp <= 1
ShortCircuit(hm, tp) == (~hm) \/ tp <= 1

\* processed_pages[page_num] = page_data["rowData"]: the key a completed
\* page is buffered under (n = pages buffered before it)
PageKeyByArrival(page_num, n) == n + 1
PageKey(page_num, n) == page_num

\* where the as_completed loop continues after `except Exception as e:
\* print(f"Error processing page {page}: {e}")`
AfterPageErrorAbort == "aborted"
AfterPageError == "collect"

SetKey(f, k, v) == [q \in DOMAIN f \cup {k} |-> IF q = k THEN v ELSE f[q]]

\* the signature is (table_name, show_progress, max_concurrent_requests): a
\* call with any other keyword raises TypeError when the arguments are bound
AcceptsAnyKeyword(limit) == TRUE
AcceptsArguments(limit) == limit = None

\* row_count = row_counts.get(table_name, None) for the three outcomes of
\* get_table_row_counts(): it raised, the table is absent, it is listed
RowCount(r, n) ==
  IF r = "fail" THEN Unbound ELSE IF r = "absent" THEN None ELSE n

\* `if row_count is not None and row_count > 0: total_pages = ceil else None`;
\* the except branch sets None as well
PagesFromCount(rc) ==
  IF rc # Unbound /\ rc # None /\ rc > 0 THEN TotalPages(rc) ELSE None

\* `if total_pages is None and "rowCount" in data and data["rowCount"] > 0:
\* total_pages = (data["rowCount"] + PER_PAGE - 1) // PER_PAGE`
PagesFromPage0Ignored(tp, body) == tp
PagesFromPage0(tp, body) ==
  IF tp = None /\ body.rowCount # None /\ body.rowCount > 0
    THEN TotalPages(body.rowCount) ELSE tp

\* range(1, total_pages)
InRangeInclusive(p, tp) == p <= tp
InRange(p, tp) == p < tp

\* ThreadPoolExecutor(max_workers=max_concurrent_requests): pool thread w
\* exists
InPoolUnbounded(w) == TRUE
InPool(w) == w <= concurrency

\* the call of the generator function, then get_table_row_counts() is
\* entered: `if rate_limiter: rate_limiter.acquire()`
CoStart ==
  /\ pc[Main] = "start"
  /\ IF AcceptsArguments(row_limit)
       THEN CallAcquire(Main, "counts_req", hasLimiter)
       ELSE /\ pc' = [pc EXCEPT ![Main] = "aborted"]
            /\ UNCHANGED ret
  /\ UNCHANGED <<cfgVars, drvVars, row_count, rlVars, sleepLeft, fVars,
                 cntVars, coVars, obsVars>>

\* GET /tables/counts: the request fails (caught, warning printed), or the
\* mapping lacks the table, or it carries the table's row count; then the
\* acquire before the page-0 request
CoCounts ==
  /\ pc[Main] = "counts_req"
  /\ nReq' = [nReq EXCEPT ![Main] = @ + 1]
  /\ \E r \in {"fail", "absent", "count"} :
       /\ row_count' = RowCount(r, trueRows)
       /\ total_pages' = PagesFromCount(RowCount(r, trueRows))
  /\ CallAcquire(Main, "page0_req", hasLimiter)
  /\ UNCHANGED <<cfgVars, drvVars, rlVars, sleepLeft, fVars,
                 nAcq, nFail, data, sub_page, queue, future, handled,
                 processed_pages, completed, errorPages, retryPages,
                 outOfOrder, emit_page, emitted, obsVars>>

\* the line of the progress display: with the bar and the percentage under
\* `if show_progress and total_pages:` (page 0) and `if show_progress:`
\* (later pages, where total_pages is 2 or more), plain otherwise; either
\* way it says f"{n}/{total_pages}"
ShowsBar(sp, total) == sp /\ total # None /\ total # 0
ProgressLine(sp, n, total) ==
  <<IF ShowsBar(sp, total) THEN "bar" ELSE "plain", n, total>>

\* `completed += 1`, before and outside the test of show_progress
CompletedWhenShown(sp, c) == IF sp THEN c + 1 ELSE c
Completed(sp, c) == c + 1

\* where the coordinator continues when the page-0 request or its
\* raise_for_status() raises: nothing around them catches
AfterPage0ErrorRetry == "page0_req"
AfterPage0Error == "aborted"

\* the "rowCount" key of the body of page 0: the server puts the table's
\* count there or leaves the key out.  The key is read only under
\* `total_pages is None`, so its absence is tried only there, on the body of
\* a table of several pages that says hasMore.
Page0RowCount(carried, n) == IF carried THEN n ELSE None
MayOmitRowCount(hm, tp, n) == hm /\ tp = None /\ n > PER_PAGE

\* GET rows?page=0&perPage=100 and raise_for_status(): one attempt, a failure
\* propagates out of the generator.  The body's hasMore flag is whatever the
\* server says.
CoPage0 ==
  /\ pc[Main] = "page0_req"
  /\ nReq' = [nReq EXCEPT ![Main] = @ + 1]
  /\ \E ok \in BOOLEAN, hm \in BOOLEAN, rc \in BOOLEAN :
       IF ok
         THEN /\ rc \/ MayOmitRowCount(hm, total_pages, trueRows)
              /\ data' = [PageData(0, trueRows) EXCEPT
                            !.hasMore = hm,
                            !.rowCount = Page0RowCount(rc, trueRows)]
              /\ pc' = [pc EXCEPT ![Main] = "page0_emit"]
         ELSE /\ hm /\ rc
              /\ pc' = [pc EXCEPT ![Main] = AfterPage0Error]
              /\ UNCHANGED data
  /\ UNCHANGED <<cfgVars, drvVars, row_count, rlVars, ret, sleepLeft, fVars,
                 nAcq, nFail, total_pages, sub_page, queue, future, handled,
                 processed_pages, completed, errorPages, retryPages,
                 outOfOrder, emit_page, emitted, obsVars>>

\* `for row in first_page_rows: yield dict(zip(column_names, row))`, then the
\* update of total_pages from the rowCount of page 0 and the first line of
\* the progress display
CoEmitPage0 ==
  /\ pc[Main] = "page0_emit"
  /\ emitted' = emitted \o data.rowData
  /\ total_pages' = PagesFromPage0(total_pages, data)
  /\ progress' = ProgressLine(show_progress, 1, total_pages')
  /\ pc' = [pc EXCEPT ![Main] = "check_more"]
  /\ UNCHANGED <<cfgVars, drvVars, row_count, rlVars, ret, sleepLeft, fVars,
                 cntVars, data, sub_page, queue, future, handled,
                 processed_pages, completed, errorPages, retryPages,
                 outOfOrder, emit_page, clock>>

\* `not has_more or total_pages <= 1` reaches `total_pages <= 1` only when
\* has_more is true, and with total_pages still None the comparison raises
\* TypeError, which nothing in the generator catches
ComparesNoneAsSmall(hm, tp) == FALSE
ComparesNone(hm, tp) == hm /\ tp = None

\* has_more = data.get("hasMore", False); the single-page return; otherwise
\* processed_pages = {0: first_page_rows} and ThreadPoolExecutor(max_workers=
\* max_concurrent_requests), which raises ValueError unless that is > 0.
\* row_count is never read again: the fan-out is modelled without it.
CoCheckMore ==
  /\ pc[Main] = "check_more"
  /\ IF ComparesNone(data.hasMore, total_pages)
       THEN /\ pc' = [pc EXCEPT ![Main] = "aborted"]
            /\ UNCHANGED <<processed_pages, row_count>>
       ELSE IF ShortCircuit(data.hasMore, total_pages)
         THEN /\ pc' = [pc EXCEPT ![Main] = "done"]
              /\ UNCHANGED <<processed_pages, row_count>>
         ELSE /\ processed_pages' = SetKey(processed_pages, 0, data.rowData)
              /\ IF concurrency <= 0
                   THEN /\ pc' = [pc EXCEPT ![Main] = "aborted"]
                        /\ UNCHANGED row_count
                   ELSE /\ pc' = [pc EXCEPT ![Main] = "submit"]
                        /\ row_count' = Unbound
  /\ UNCHANGED <<cfgVars, drvVars, rlVars, ret, sleepLeft, fVars,
                 cntVars, total_pages, data, sub_page, queue, future, handled,
                 completed, errorPages, retryPages, outOfOrder, emit_page,
                 emitted, obsVars>>

\* one iteration of `executor.submit(fetch_page_with_retry, table_name, page,
\* PER_PAGE) for page in range(1, total_pages)`; after the last one the
\* as_completed loop starts with completed = 0
CoSubmit ==
  /\ pc[Main] = "submit"
  /\ IF InRange(sub_page, total_pages)
       THEN /\ queue' = Append(queue, sub_page)
            /\ future' = SetKey(future, sub_page, [st |-> "pending", val |-> <<>>])
            /\ sub_page' = sub_page + 1
            /\ UNCHANGED <<pc, completed>>
       ELSE /\ completed' = 0
            /\ pc' = [pc EXCEPT ![Main] = "collect"]
            /\ UNCHANGED <<queue, future, sub_page>>
  /\ UNCHANGED <<cfgVars, drvVars, row_count, rlVars, ret, sleepLeft, fVars,
                 cntVars, total_pages, data, handled, processed_pages,
                 errorPages, retryPages, outOfOrder, emit_page, emitted,
                 obsVars>>

FinishedOnlyReturned(p) == future[p].st = "returned"
Finished(p) == future[p].st \in {"returned", "raised", "retnone"}

\* one iteration of `for future in as_completed(future_to_page)`: any future
\* that has finished and was not yet yielded.  future.result() gives the
\* (page_num, page_data) pair, buffered under its page number, and the
\* progress line is printed; or it raises (also when the pair cannot be
\* unpacked) and the error is printed.
CoCollect ==
  /\ pc[Main] = "collect"
  /\ \E p \in DOMAIN future \ handled :
       /\ Finished(p)
       /\ handled' = handled \cup {p}
       /\ outOfOrder' = (outOfOrder \/ \E q \in DOMAIN future \ handled : q < p)
       /\ IF future[p].st = "returned"
            THEN /\ processed_pages' =
                      SetKey(processed_pages,
                             PageKey(future[p].val[1], completed),
                             future[p].val[2].rowData)
                 /\ completed' = Completed(show_progress, completed)
                 /\ progress' =
                      ProgressLine(show_progress, completed' + 1, total_pages)
                 /\ UNCHANGED <<errorPages, pc>>
            ELSE /\ errorPages' = errorPages \cup {p}
                 /\ pc' = [pc EXCEPT ![Main] = AfterPageError]
                 /\ UNCHANGED <<processed_pages, completed, progress>>
  /\ UNCHANGED <<cfgVars, drvVars, row_count, rlVars, ret, sleepLeft, fVars,
                 cntVars, total_pages, data, sub_page, queue, future,
                 retryPages, emit_page, emitted, clock>>

\* as_completed yields every submitted future once, as it finishes, and the
\* with block is left (executor.shutdown(wait=True)) only after the loop
ExhaustedAtFirst(h, f) == h # {}
Exhausted(h, f) == h = DOMAIN f

\* as_completed is exhausted and the with block is left
CoCollected ==
  /\ pc[Main] = "collect"
  /\ Exhausted(handled, future)
  /\ pc' = [pc EXCEPT ![Main] = "reassemble"]
  /\ UNCHANGED <<cfgVars, drvVars, row_count, rlVars, ret, sleepLeft, fVars,
                 cntVars, coVars, obsVars>>

\* one iteration of `for page_num in range(1, total_pages): if page_num in
\* processed_pages: for row in processed_pages[page_num]: yield ...`; after
\* the last one, total_pages = completed + 1 and the generator returns
CoReassemble ==
  /\ pc[Main] = "reassemble"
  /\ IF InRange(emit_page, total_pages)
       THEN /\ emitted' = IF emit_page \in DOMAIN processed_pages
                            THEN emitted \o processed_pages[emit_page]
                            ELSE emitted
            /\ emit_page' = emit_page + 1
            /\ UNCHANGED <<pc, total_pages>>
       ELSE /\ total_pages' = completed + 1
            /\ pc' = [pc EXCEPT ![Main] = "done"]
            /\ UNCHANGED <<emitted, emit_page>>
  /\ UNCHANGED <<cfgVars, drvVars, row_count, rlVars, ret, sleepLeft, fVars,
                 cntVars, data, sub_page, queue, future, handled,
                 processed_pages, completed, errorPages, retryPages,
                 outOfOrder, obsVars>>

\* a pool thread (there are at most max_workers of them) takes the oldest
\* work item and calls fetch_page_with_retry(table_name, page, PER_PAGE).
\* Idle pool threads are interchangeable: the lowest-numbered one takes it.
WorkerTake(w) ==
  /\ InPool(w)
  /\ pc[w] = "idle"
  /\ \A v \in Workers : v < w => pc[v] # "idle"
  /\ queue # <<>>
  /\ LET p == Head(queue) IN
       /\ queue' = Tail(queue)
       /\ future' = [future EXCEPT ![p].st = "running"]
       /\ page' = [page EXCEPT ![w] = p]
  /\ pc' = [pc EXCEPT ![w] = "fetch_loop"]
  /\ UNCHANGED <<cfgVars, drvVars, row_count, rlVars, ret, sleepLeft, attempt,
                 fres, fval, cntVars, total_pages, data, sub_page, handled,
                 processed_pages, completed, errorPages, retryPages,
                 outOfOrder, emit_page, emitted, obsVars>>

\* the call returned or raised: the pool thread sets the future's result or
\* exception and goes back to the work queue; the frame of the call is gone
WorkerFinish(w) ==
  /\ pc[w] = "fetch_done"
  /\ future' = [future EXCEPT ![page[w]] = [st |-> fres[w], val |-> fval[w]]]
  /\ pc' = [pc EXCEPT ![w] = "idle"]
  /\ ret' = [ret EXCEPT ![w] = "idle"]
  /\ page' = [page EXCEPT ![w] = 0]
  /\ attempt' = [attempt EXCEPT ![w] = 0]
  /\ fres' = [fres EXCEPT ![w] = "none"]
  /\ fval' = [fval EXCEPT ![w] = <<>>]
  /\ nAcq' = [nAcq EXCEPT ![w] = 0]
  /\ nReq' = [nReq EXCEPT ![w] = 0]
  /\ nFail' = [nFail EXCEPT ![w] = 0]
  /\ UNCHANGED <<cfgVars, drvVars, row_count, rlVars, sleepLeft, total_pages,
                 data, sub_page, queue, handled, processed_pages, completed,
                 errorPages, retryPages, outOfOrder, emit_page, emitted,
                 obsVars>>

Coordinator ==
  \/ CoStart \/ CoCounts \/ CoPage0 \/ CoEmitPage0 \/ CoCheckMore
  \/ CoSubmit \/ CoCollect \/ CoCollected \/ CoReassemble

\* python main.py --rate-limit R with R = 2 / TokenUnit: the limiter exists,
\* retries has its default
Init ==
  /\ Cap = 2
  /\ hasLimiter = TRUE
  /\ retries = DefaultRetries
  /\ concurrency \in 0..MaxWorkers
  /\ trueRows \in RowCounts
  /\ row_limit \in {None, PER_PAGE + 1}
  /\ show_progress \in BOOLEAN
  /\ args_all = FALSE
  /\ args_tables = <<>>
  /\ apiTables = <<>>
  /\ NoDriver
  /\ InitLimiter
  /\ pc = [t \in Threads |-> IF t = Main THEN "start" ELSE "idle"]
  /\ page = [t \in Threads |-> 0]
  /\ InitThreads
  /\ InitCoordinator
  /\ clock = 0
  /\ progress = <<>>

Next ==
  \/ Tick
  \/ Coordinator
  \/ \E t \in Threads : Acquire(t)
  \/ \E w \in Workers : WorkerTake(w) \/ Fetch(w) \/ WorkerFinish(w)

Spec == Init /\ [][Next]_vars

\* every thread that can take a step eventually takes it, and time passes:
\* the threads are scheduled, every sleep and every transport call ends
FairTable ==
  /\ WF_vars(Tick)
  /\ WF_vars(Coordinator)
  /\ \A t \in Threads : WF_vars(Acquire(t))
  /\ \A w \in Workers : WF_vars(WorkerTake(w) \/ Fetch(w) \/ WorkerFinish(w))

\* one call with the default arguments but for the concurrency, which is 1
\* or more, on a table of up to three pages
InitLive ==
  /\ Init
  /\ concurrency >= 1
  /\ trueRows < 3 * PER_PAGE
  /\ row_limit = None
  /\ show_progress

SpecLive == InitLive /\ [][Next]_vars /\ FairTable

\* ================================================================== main

\* table names are numbers; the hard-coded important_tables list, in its
\* order (names 3, 4, ... are ordinary tables)
TableNames == 1..MaxTables
important_tables == <<2, 1>>

\* `x in list`
InSeq(x, sq) == \E i \in 1..Len(sq) : sq[i] = x

\* `for table in src: if <keep>: acc.append(table)` for the two loops that
\* build prioritized_tables under --all
RECURSIVE AppendExisting(_, _, _)
AppendExisting(acc, src, all) ==
  IF src = <<>> THEN acc
  ELSE AppendExisting(IF InSeq(Head(src), all) THEN Append(acc, Head(src)) ELSE acc,
                      Tail(src), all)

RECURSIVE AppendMissing(_, _)
AppendMissing(acc, src) ==
  IF src = <<>> THEN acc
  ELSE AppendMissing(IF InSeq(Head(src), acc) THEN acc ELSE Append(acc, Head(src)),
                     Tail(src))

PrioritizedDiscoveryOrder(all) == AppendMissing(<<>>, all)
Prioritized(all) ==
  AppendMissing(AppendExisting(<<>>, important_tables, all), all)

\* tables_to_load for the given arguments
TablesToLoad(all) == IF args_all THEN Prioritized(all) ELSE args_tables

\* `if table in all_tables:` at the head of the loop body
KnownAlways(table, all) == TRUE
Known(table, all) == InSeq(table, all)

\* where main continues after `except Exception as e: print(f"Error loading
\* {table}: {e}")`
AfterLoadErrorExit == "m_exit"
AfterLoadError == "m_loop"

\* verification_status of the summary entry: "OK", or f"WARNING: API reported
\* {api_row_count} rows, DuckDB contains {db_row_count} rows", a message that
\* carries the two numbers
VerificationAlwaysOk(api, db) == <<"OK">>
Verification(api, db) ==
  IF api # None /\ db # api THEN <<"WARNING", api, db>> ELSE <<"OK">>

\* the row counts the store may hold after pipeline.run returned: where the
\* run is taken by its outcome only, all the rows or a page less; where the
\* resource was run, the records it emitted (write_disposition="replace")
StoredCountsUpstream == {trueRows}
StoredCounts ==
  IF data = NoData THEN {trueRows, Max(trueRows - PER_PAGE, 0)}
  ELSE {Len(emitted)}

\* `if not (args.tables or args.all or args.list_tables): print_help; return`;
\* otherwise rate_limiter = RateLimiter(args.rate_limit) and get_all_tables()
\* is entered
DrvStart ==
  /\ pc[Main] = "m_start"
  /\ IF args_all \/ args_tables # <<>>
       THEN CallAcquire(Main, "m_list_req", hasLimiter)
       ELSE /\ pc' = [pc EXCEPT ![Main] = "m_exit"]
            /\ UNCHANGED ret
  /\ UNCHANGED <<cfgVars, drvVars, row_count, rlVars, sleepLeft, fVars,
                 cntVars, coVars, obsVars>>

\* GET /tables/ and raise_for_status(): a failure is not caught anywhere;
\* otherwise tables_to_load is determined and the loop is entered
DrvList ==
  /\ pc[Main] = "m_list_req"
  /\ nReq' = [nReq EXCEPT ![Main] = @ + 1]
  /\ \E ok \in BOOLEAN :
       IF ok
         THEN /\ all_tables' = apiTables
              /\ tables_to_load' = TablesToLoad(apiTables)
              /\ pc' = [pc EXCEPT ![Main] = "m_loop"]
         ELSE /\ pc' = [pc EXCEPT ![Main] = "m_list_failed"]
              /\ UNCHANGED <<all_tables, tables_to_load>>
  /\ UNCHANGED <<cfgVars, ti, attempts, notFound, loadErrors,
                 successful_tables, table_summaries, api_row_count,
                 row_count, rlVars, ret, sleepLeft, fVars, nAcq, nFail, coVars,
                 obsVars>>

\* `for table in tables_to_load: if table in all_tables: ... else:
\* print(f"Table {table} not found in API")`
DrvNext ==
  /\ pc[Main] = "m_loop"
  /\ IF ti > Len(tables_to_load)
       THEN /\ pc' = [pc EXCEPT ![Main] = "m_summary"]
            /\ UNCHANGED <<ti, notFound>>
       ELSE IF Known(tables_to_load[ti], all_tables)
         THEN /\ pc' = [pc EXCEPT ![Main] = "m_run"]
              /\ UNCHANGED <<ti, notFound>>
         ELSE /\ notFound' = notFound \cup {ti}
              /\ ti' = ti + 1
              /\ UNCHANGED pc
  /\ UNCHANGED <<cfgVars, all_tables, tables_to_load, attempts, loadErrors,
                 successful_tables, table_summaries, api_row_count,
                 row_count, rlVars, ret, sleepLeft, fVars, cntVars, coVars,
                 obsVars>>

\* load_info = pipeline.run(eduskunta_table(table_name=table, ...)): the
\* fetch and the write of one table, here by its outcome only: it returns, or
\* an exception (of the generator, or of the store) reaches the handler
\* of the loop body.  After a return the row-count request of the
\* verification is entered.
DrvRun ==
  /\ pc[Main] = "m_run"
  /\ attempts' = Append(attempts, tables_to_load[ti])
  /\ \E ok \in BOOLEAN :
       IF ok
         THEN /\ CallAcquire(Main, "m_counts_req", hasLimiter)
              /\ UNCHANGED <<ti, loadErrors>>
         ELSE /\ loadErrors' = loadErrors \cup {ti}
              /\ ti' = ti + 1
              /\ pc' = [pc EXCEPT ![Main] = AfterLoadError]
              /\ UNCHANGED ret
  /\ UNCHANGED <<cfgVars, all_tables, tables_to_load, notFound,
                 successful_tables, table_summaries, api_row_count,
                 row_count, rlVars, sleepLeft, fVars, cntVars, coVars,
                 obsVars>>

\* api_row_count = None; row_counts = get_table_row_counts(): the count of
\* the table, or the table is absent, or the request raised and the
\* fallback probe is entered (`if rate_limiter: rate_limiter.acquire()`)
DrvVerifyCounts ==
  /\ pc[Main] = "m_counts_req"
  /\ nReq' = [nReq EXCEPT ![Main] = @ + 1]
  /\ \E r \in {"fail", "absent", "count"} :
       IF r = "fail"
         THEN /\ api_row_count' = None
              /\ CallAcquire(Main, "m_probe_req", hasLimiter)
         ELSE /\ api_row_count' = IF r = "count" THEN trueRows ELSE None
              /\ pc' = [pc EXCEPT ![Main] = "m_db"]
              /\ UNCHANGED ret
  /\ UNCHANGED <<cfgVars, all_tables, tables_to_load, ti, attempts, notFound,
                 loadErrors, successful_tables, table_summaries, row_count,
                 rlVars, sleepLeft, fVars, nAcq, nFail, coVars, obsVars>>

\* requests.get(.../rows, page 0, perPage 1); data = response.json(); `if
\* "rowCount" in data: api_row_count = data["rowCount"]`; `except Exception:
\* pass`
DrvVerifyProbe ==
  /\ pc[Main] = "m_probe_req"
  /\ nReq' = [nReq EXCEPT ![Main] = @ + 1]
  /\ \E got \in BOOLEAN :
       api_row_count' = IF got THEN trueRows ELSE None
  /\ pc' = [pc EXCEPT ![Main] = "m_db"]
  /\ UNCHANGED <<cfgVars, all_tables, tables_to_load, ti, attempts, notFound,
                 loadErrors, successful_tables, table_summaries, row_count,
                 rlVars, ret, sleepLeft, fVars, nAcq, nFail, coVars, obsVars>>

\* SELECT COUNT(*) on the store, the comparison, the summary entry and
\* successful_tables += 1; a failing query gives rows "unknown" (None here)
\* and an ERROR status
DrvVerifyDb ==
  /\ pc[Main] = "m_db"
  /\ \E db \in StoredCounts \cup {None} :
       table_summaries' =
         SetKey(table_summaries, tables_to_load[ti],
                IF db = None
                  THEN [rows |-> None, verification |-> <<"ERROR">>]
                  ELSE [rows |-> db,
                        verification |-> Verification(api_row_count, db)])
  /\ successful_tables' = successful_tables + 1
  /\ ti' = ti + 1
  /\ api_row_count' = None
  /\ pc' = [pc EXCEPT ![Main] = "m_loop"]
  /\ UNCHANGED <<cfgVars, all_tables, tables_to_load, attempts, notFound,
                 loadErrors, row_count, rlVars, ret, sleepLeft, fVars,
                 cntVars, coVars, obsVars>>

\* the totals are counted and the DOWNLOAD SUMMARY block is printed
DrvSummary ==
  /\ pc[Main] = "m_summary"
  /\ pc' = [pc EXCEPT ![Main] = "m_details"]
  /\ UNCHANGED <<cfgVars, drvVars, row_count, rlVars, ret, sleepLeft, fVars,
                 cntVars, coVars, obsVars>>

\* TABLE DETAILS: f"{rows:,} rows" for every summary entry, which raises
\* ValueError for the string "unknown"; then the final message
DrvDetails ==
  /\ pc[Main] = "m_details"
  /\ pc' = [pc EXCEPT ![Main] =
              IF successful_tables > 0
                 /\ \E t \in DOMAIN table_summaries :
                      table_summaries[t].rows = None
                THEN "m_details_failed" ELSE "m_exit"]
  /\ UNCHANGED <<cfgVars, drvVars, row_count, rlVars, ret, sleepLeft, fVars,
                 cntVars, coVars, obsVars>>

\* the exit status of `if __name__ == "__main__": main()`: 0 when main
\* returns, 1 when an exception leaves it, None while it runs
ExitStatus(label) ==
  IF label = "m_exit" THEN 0
  ELSE IF label \in {"m_list_failed", "m_details_failed"} THEN 1
  ELSE None

\* rate_limiter.acquire() raised inside get_all_tables(), whose call in main
\* is not inside any try: the exception ends main like a failed listing
DrvAcquireRaised ==
  /\ pc[Main] = "acq_raised"
  /\ ret[Main] = "m_list_req"
  /\ pc' = [pc EXCEPT ![Main] = "m_list_failed"]
  /\ UNCHANGED <<cfgVars, drvVars, row_count, rlVars, ret, sleepLeft, fVars,
                 cntVars, coVars, obsVars>>

\* the steps of main around pipeline.run
DriverSteps ==
  \/ DrvStart \/ DrvList \/ DrvNext
  \/ DrvVerifyCounts \/ DrvVerifyProbe \/ DrvVerifyDb
  \/ DrvSummary \/ DrvDetails

Driver == DriverSteps \/ DrvRun \/ DrvAcquireRaised

\* the sequences of distinct table names
RECURSIVE DistinctSeqs(_)
DistinctSeqs(S) ==
  {<<>>} \cup UNION {{<<x>> \o sq : sq \in DistinctSeqs(S \ {x})} : x \in S}

\* the values of --tables tried: up to MaxRequested names, repeats allowed
RequestedSeqs == UNION {[1..k -> TableNames] : k \in 0..MaxRequested}

\* the values of --rate-limit tried, in tokens of TokenUnit units a second
RateLimits == {-1, 0, 2}

\* python main.py --all against any listing, or python main.py --tables ...
\* (or no action at all) against a listing of all the tables but the last
InitMain ==
  /\ Cap \in RateLimits
  /\ hasLimiter = TRUE
  /\ retries = DefaultRetries
  /\ concurrency = MaxWorkers
  /\ trueRows = 2 * PER_PAGE + PER_PAGE \div 2
  /\ row_limit = None
  /\ show_progress = TRUE
  /\ args_all \in BOOLEAN
  /\ IF args_all
       THEN /\ args_tables = <<>>
            /\ apiTables \in DistinctSeqs(TableNames)
       ELSE /\ args_tables \in RequestedSeqs
            /\ apiTables = [i \in 1..(MaxTables - 1) |-> i]
  /\ NoDriver
  /\ InitLimiter
  /\ pc = [t \in Threads |-> IF t = Main THEN "m_start" ELSE "idle"]
  /\ page = [t \in Threads |-> 0]
  /\ InitThreads
  /\ InitCoordinator
  /\ clock = 0
  /\ progress = <<>>

NextMain == Tick \/ Acquire(Main) \/ Driver

SpecMain == InitMain /\ [][NextMain]_vars

\* every step of main that is enabled is eventually taken, and time passes
FairMain ==
  /\ WF_vars(Tick)
  /\ WF_vars(Acquire(Main))
  /\ WF_vars(Driver)

SpecMainFair == SpecMain /\ FairMain

\* --------------------------------------- main with the resource run inside

\* pipeline.run(eduskunta_table(table_name=table, ...)) starts iterating a
\* fresh generator: the locals of the previous call are gone
RunCall ==
  /\ pc[Main] = "m_run"
  /\ attempts' = Append(attempts, tables_to_load[ti])
  /\ pc' = [pc EXCEPT ![Main] = "start"]
  /\ row_count' = Unbound
  /\ total_pages' = None
  /\ data' = NoData
  /\ sub_page' = 1
  /\ queue' = <<>>
  /\ future' = <<>>
  /\ handled' = {}
  /\ processed_pages' = <<>>
  /\ completed' = 0
  /\ errorPages' = {}
  /\ retryPages' = {}
  /\ outOfOrder' = FALSE
  /\ emit_page' = 1
  /\ emitted' = <<>>
  /\ UNCHANGED <<cfgVars, all_tables, tables_to_load, ti, notFound,
                 loadErrors, successful_tables, table_summaries,
                 api_row_count, rlVars, ret, sleepLeft, fVars, cntVars,
                 obsVars>>

\* the generator has returned and the store takes the records or rejects
\* them, or the generator has raised: pipeline.run returns and the
\* verification is entered, or the exception reaches the handler of the
\* loop body
RunEnd ==
  /\ pc[Main] \in {"done", "aborted"}
  /\ tables_to_load # <<>>
  /\ \E written \in BOOLEAN :
       IF pc[Main] = "done" /\ written
         THEN /\ CallAcquire(Main, "m_counts_req", hasLimiter)
              /\ UNCHANGED <<ti, loadErrors>>
         ELSE /\ loadErrors' = loadErrors \cup {ti}
              /\ ti' = ti + 1
              /\ pc' = [pc EXCEPT ![Main] = AfterLoadError]
              /\ UNCHANGED ret
  /\ UNCHANGED <<cfgVars, all_tables, tables_to_load, attempts, notFound,
                 successful_tables, table_summaries, api_row_count,
                 row_count, rlVars, sleepLeft, fVars, cntVars, coVars,
                 obsVars>>

\* python main.py --all against a listing of two tables of two pages and a
\* half each
InitRun ==
  /\ Cap = 2
  /\ hasLimiter = TRUE
  /\ retries = DefaultRetries
  /\ concurrency = MaxWorkers
  /\ trueRows = 2 * PER_PAGE + PER_PAGE \div 2
  /\ row_limit = None
  /\ show_progress = TRUE
  /\ args_all = TRUE
  /\ args_tables = <<>>
  /\ apiTables = <<1, 2>>
  /\ NoDriver
  /\ InitLimiter
  /\ pc = [t \in Threads |-> IF t = Main THEN "m_start" ELSE "idle"]
  /\ page = [t \in Threads |-> 0]
  /\ InitThreads
  /\ InitCoordinator
  /\ clock = 0
  /\ progress = <<>>

NextRun ==
  \/ Tick
  \/ DriverSteps \/ RunCall \/ RunEnd
  \/ Coordinator
  \/ \E t \in Threads : Acquire(t)
  \/ \E w \in Workers : WorkerTake(w) \/ Fetch(w) \/ WorkerFinish(w)

SpecRun == InitRun /\ [][NextRun]_vars

\* ------------------------------------------------- the order under --all

\* the listings tried: up to MaxNames names out of MaxNames, repeats allowed;
\* the names above those of important_tables are the other tables
Listings == UNION {[1..k -> 1..MaxNames] : k \in 0..MaxNames}

\* python main.py --all against any of the listings
InitOrder ==
  /\ Cap = MaxCap
  /\ hasLimiter = TRUE
  /\ retries = DefaultRetries
  /\ concurrency = MaxWorkers
  /\ trueRows = 2 * PER_PAGE + PER_PAGE \div 2
  /\ row_limit = None
  /\ show_progress = TRUE
  /\ args_all = TRUE
  /\ args_tables = <<>>
  /\ apiTables \in Listings
  /\ NoDriver
  /\ InitLimiter
  /\ pc = [t \in Threads |-> IF t = Main THEN "m_start" ELSE "idle"]
  /\ page = [t \in Threads |-> 0]
  /\ InitThreads
  /\ InitCoordinator
  /\ clock = 0
  /\ progress = <<>>

\* main up to the point where tables_to_load is determined; the bucket is
\* full at the one acquire(), which therefore never sleeps
NextOrder == Tick \/ DrvStart \/ AcqEnter(Main) \/ AcqConsume(Main) \/ DrvList

SpecOrder == InitOrder /\ [][NextOrder]_vars

\* ================================================================ claims

RECURSIVE SumOver(_, _)
SumOver(f, S) ==
  IF S = {} THEN 0
  ELSE LET x == CHOOSE y \in S : TRUE IN f[x] + SumOver(f, S \ {x})

\* acquisitions granted so far
Granted == SumOver(nAcq, Workers)

InCriticalSection(t) == pc[t] \in {"acq_consume", "acq_sleep"}

\* the rows a strictly sequential fetch of the pages first..last yields, the
\* pages outside ok being left out
RECURSIVE SequentialFetch(_, _, _, _)
SequentialFetch(first, last, ok, n) ==
  IF first > last THEN <<>>
  ELSE (IF first \in ok THEN PageRows(first, n) ELSE <<>>)
         \o SequentialFetch(first + 1, last, ok, n)

\* page 0 and the pages whose task returned a payload
OkPages == {0} \cup {p \in DOMAIN future : future[p].st = "returned"}

\* the pages whose task ended with an exception
FailedPages == {p \in DOMAIN future : future[p].st = "raised"}

\* C1: whatever the order in which the concurrent page tasks complete, the
\* records are emitted in ascending page order, each page's rows in source
\* order: the stream is strictly ascending at every moment, and at the end it
\* is what a sequential fetch of the same pages gives.
C1_PageOrderPreserved ==
  /\ \A i \in 1..(Len(emitted) - 1) : emitted[i] < emitted[i + 1]
  /\ pc[Main] = "done" =>
       emitted = SequentialFetch(0, MaxPages, OkPages, trueRows)

C1_Witness ==
  /\ pc[Main] = "done"
  /\ concurrency > 1
  /\ outOfOrder
  /\ FailedPages = {}
  /\ Len(emitted) = trueRows
  /\ trueRows > 2 * PER_PAGE

\* C2: when the server says hasMore on page 0 of a table of N > 100 rows and
\* every submitted page task in the end returns (retried or not), the finished
\* stream holds exactly the N records 0..N-1, none lost and none twice.
C2_AllRowsExactlyOnce ==
  ( /\ pc[Main] = "done"
    /\ trueRows > PER_PAGE => data.hasMore
    /\ \A p \in DOMAIN future : future[p].st = "returned" )
  => /\ Len(emitted) = trueRows
     /\ \A i \in 1..Len(emitted) : emitted[i] = i - 1

C2_Witness ==
  /\ pc[Main] = "done"
  /\ trueRows = 2 * PER_PAGE + PER_PAGE \div 2
  /\ concurrency = 2
  /\ 2 \in retryPages
  /\ 1 \notin retryPages
  /\ FailedPages = {}
  /\ Len(emitted) = trueRows

\* C3: a page task that fails for good does not abort the run: the failure
\* is reported for that page, none of its rows is emitted, the pages that
\* did return are emitted in ascending order, and the run ends normally.
C3_FailedPageSkipped ==
  /\ FailedPages # {} => pc[Main] # "aborted"
  /\ \A p \in FailedPages \cap handled : p \in errorPages
  /\ \A p \in FailedPages : \A i \in 1..Len(emitted) :
       emitted[i] \div PER_PAGE # p
  /\ (pc[Main] = "done" /\ FailedPages # {}) =>
       /\ emitted = SequentialFetch(0, MaxPages, OkPages, trueRows)
       /\ Len(emitted) < trueRows

C3_Witness ==
  /\ pc[Main] = "done"
  /\ FailedPages = {1}
  /\ errorPages = {1}
  /\ 2 \in OkPages
  /\ emitted = PageRows(0, trueRows) \o PageRows(2, trueRows)

\* C4: when page 0 says hasMore = false, or the table has at most one page,
\* no page task is ever submitted and no pool thread ever runs, whatever the
\* concurrency; the run ends normally with exactly the rows of page 0.
C4_SinglePageShortCircuit ==
  ( /\ data # NoData
    /\ (~data.hasMore) \/ (trueRows >= 1 /\ trueRows <= PER_PAGE) )
  => /\ DOMAIN future = {}
     /\ queue = <<>>
     /\ \A w \in Workers : pc[w] = "idle"
     /\ pc[Main] \in {"page0_emit", "check_more", "done"}
     /\ pc[Main] = "done" => emitted = PageRows(0, trueRows)

C4_Witness ==
  /\ pc[Main] = "done"
  /\ ~data.hasMore
  /\ trueRows > PER_PAGE
  /\ concurrency = MaxWorkers
  /\ Len(emitted) = PER_PAGE

\* C5: with retries = K >= 1 a call never makes more than K transport calls,
\* and a call all of whose transport calls failed has made exactly K of them
\* and ended by raising, without a return value.
C5_ExhaustedRetriesRaise ==
  \A t \in Workers :
    /\ nReq[t] <= (IF retries >= 1 THEN retries ELSE 0)
    /\ (retries >= 1 /\ fres[t] # "none" /\ nFail[t] = nReq[t]) =>
         (fres[t] = "raised" /\ nReq[t] = retries /\ fval[t] = <<>>)

C5_Witness ==
  \E t \in Workers :
    /\ retries >= 2
    /\ pc[t] = "fetch_done"
    /\ fres[t] = "raised"
    /\ nFail[t] = retries

\* C6: with retries = K >= 1, a call whose first K-1 transport calls failed
\* and whose K-th succeeded returns (does not raise), and the value returned
\* is the requested page index paired with the payload of that page.
C6_SuccessOnLastAttemptReturns ==
  \A t \in Workers :
    (retries >= 1 /\ pc[t] = "fetch_done" /\ nReq[t] = retries
       /\ nFail[t] = retries - 1) =>
      (fres[t] = "returned" /\ fval[t] = <<page[t], PageData(page[t], trueRows)>>)

C6_Witness ==
  \E t \in Workers :
    /\ retries >= 2
    /\ pc[t] = "fetch_done"
    /\ fres[t] = "returned"
    /\ nReq[t] = retries
    /\ nFail[t] = retries - 1

\* C7: when a rate limiter exists, a thread that is about to make its k-th
\* transport call has completed exactly k acquire() calls, and everywhere
\* else in the call the acquisitions equal the transport calls made; so a
\* call that ends after m attempts has made exactly m acquisitions.
C7_AcquireBeforeEveryAttempt ==
  hasLimiter =>
    \A t \in Workers :
      IF pc[t] = "request" THEN nAcq[t] = nReq[t] + 1 ELSE nAcq[t] = nReq[t]

C7_Witness ==
  \E t \in Workers :
    /\ hasLimiter
    /\ pc[t] = "fetch_done"
    /\ nReq[t] >= 2
    /\ nAcq[t] = nReq[t]

\* C8 as stated: N acquisitions granted from a fresh limiter take at least
\* (N-1)/R seconds, i.e. at least (N-1) * TokenUnit ticks.
C8_AtLeastNMinusOneOverR ==
  Granted >= 1 => clock >= (Granted - 1) * TokenUnit

\* C8 amended: the full initial bucket allows a burst of R acquisitions, so
\* N acquisitions take at least (N - R)/R seconds: N * TokenUnit - Cap ticks.
C8_AtLeastNMinusROverR ==
  clock >= Granted * TokenUnit - Cap

C8_Witness ==
  /\ Cap >= 2 * TokenUnit
  /\ Granted * TokenUnit > Cap
  /\ clock = Granted * TokenUnit - Cap

\* C9 as stated: no thread sleeps inside acquire() while it holds the lock.
C9_NoSleepHoldingLock ==
  \A t \in Threads : pc[t] = "acq_sleep" => t \notin lock

\* C10: under every interleaving of concurrent acquire() calls at most one
\* thread is between taking the lock and releasing it; a thread that passed
\* the test and is about to consume still finds its whole token (nobody
\* else consumed it); the token count never goes negative; and the tokens
\* handed out plus those still in the bucket never exceed the initial
\* bucket plus the refill.
C10_AcquireIsAtomic ==
  /\ Cardinality({t \in Threads : InCriticalSection(t)}) <= 1
  /\ \A t \in Threads : pc[t] = "acq_consume" => tokens >= TokenUnit
  /\ tokens >= 0
  /\ Granted * TokenUnit + tokens <= Cap + clock

C10_Witness ==
  \E t, u \in Workers :
    /\ t # u
    /\ pc[t] = "acq_consume"
    /\ pc[u] = "acq_lock"
    /\ tokens >= TokenUnit
    /\ tokens < 2 * TokenUnit


\* C11: when the refilled bucket holds a full token, acquire() takes the
\* consume branch: exactly one token is subtracted, no sleep is started, and
\* the call returns to its caller with one more acquisition granted.
C11_ConsumeWithoutSuspension ==
  [][\A t \in Threads :
       /\ (pc[t] = "acq_lock" /\ pc'[t] # "acq_lock"
             /\ Min(Cap, tokens + age) >= TokenUnit)
            => /\ pc'[t] = "acq_consume"
               /\ sleepLeft'[t] = 0
               /\ tokens' = Min(Cap, tokens + age)
       /\ (pc[t] = "acq_consume" /\ pc'[t] # "acq_consume")
            => /\ tokens' = tokens - TokenUnit
               /\ sleepLeft'[t] = 0
               /\ pc'[t] = ret[t]
               /\ nAcq'[t] = nAcq[t] + 1
               /\ t \notin lock']_vars

C11_Witness ==
  /\ clock = 0
  /\ progress = <<>>
  /\ Granted = 1
  /\ Cap >= TokenUnit
  /\ tokens = Cap - TokenUnit
  /\ lock = {}
  /\ \A t \in Threads : pc[t] = "idle"

\* C12: when the refilled bucket holds less than a full token, acquire()
\* sleeps (1.0 - tokens) / rate_limit, which is TokenUnit - tokens ticks; the
\* time slept so far and the time left add up to that, and when the call
\* returns the whole sleep has elapsed, tokens is exactly 0 and last_update
\* is the time of return.
C12_SleepThenReset ==
  /\ [](\A t \in Threads :
          (pc[t] = "acq_sleep" /\ age < Cap)
            => sleepLeft[t] = Max(0, TokenUnit - tokens - age))
  /\ [][\A t \in Threads :
          /\ (pc[t] = "acq_lock" /\ pc'[t] # "acq_lock"
                /\ Min(Cap, tokens + age) < TokenUnit)
               => /\ pc'[t] = "acq_sleep"
                  /\ tokens' = Min(Cap, tokens + age)
                  /\ sleepLeft'[t] = TokenUnit - tokens'
          /\ (pc[t] = "acq_sleep" /\ pc'[t] # "acq_sleep")
               => /\ sleepLeft[t] = 0
                  /\ tokens' = 0
                  /\ age' = 0
                  /\ pc'[t] = ret[t]
                  /\ nAcq'[t] = nAcq[t] + 1]_vars

\* a rate below one token per second never has a full token, so the one
\* acquisition granted here went through the sleep
C12_Witness ==
  /\ Cap < TokenUnit
  /\ Granted = 1
  /\ clock = TokenUnit - Cap
  /\ tokens = 0
  /\ age = 0
  /\ \A t \in Threads : pc[t] = "idle"

\* C13: the token count stays within 0 .. rate_limit: the bucket starts full
\* and stays full until the first acquisition is granted, a refill never
\* takes it above the capacity, and no acquisition takes it below zero.
C13_TokensWithinCapacity ==
  /\ tokens >= 0
  /\ tokens <= Cap
  /\ Granted = 0 => tokens = Cap

C13_Witness ==
  /\ Granted >= 1
  /\ clock > TokenUnit
  /\ tokens = Cap
  /\ \E t \in Workers : pc[t] = "acq_consume"

\* the worker threads inside a call of fetch_page_with_retry
Fetching == {w \in Workers : pc[w] # "idle"}

\* C14: at most `concurrency` page fetches are in progress at any time: no
\* more pool threads than that are inside fetch_page_with_retry and no more
\* futures than that are running, each on its own thread; and all of them go
\* through the one limiter, whose lock admits one thread at a time.
C14_BoundedFetchConcurrency ==
  /\ Cardinality(Fetching) <= Max(concurrency, 0)
  /\ {p \in DOMAIN future : future[p].st = "running"} = {page[w] : w \in Fetching}
  /\ \A v, w \in Fetching : v # w => page[v] # page[w]
  /\ Cardinality({t \in Threads : InCriticalSection(t)}) <= 1

C14_Witness ==
  /\ concurrency = 1
  /\ Cardinality(Fetching) = 1
  /\ queue # <<>>
  /\ \E w \in Fetching : pc[w] = "request"

\* ceil(trueRows / 100)
CeilPages == (trueRows \div PER_PAGE) + (IF trueRows % PER_PAGE = 0 THEN 0 ELSE 1)

\* C15: for N > 0 rows total_pages is ceil(N / 100) (it is not computed when
\* no source tells the coordinator N), and when there is more
\* than one page and hasMore is true exactly the pages 1..total_pages-1 are
\* submitted: never page 0, never a page >= total_pages, and each page is in
\* the work queue or on a pool thread at most once.
C15_OneTaskPerRemainingPage ==
  /\ (trueRows > 0 /\ pc[Main] \in {"check_more", "submit", "collect", "reassemble"})
       => total_pages = CeilPages \/ (total_pages = None /\ data.rowCount = None)
  /\ \A p \in DOMAIN future : p >= 1 /\ p < CeilPages
  /\ pc[Main] = "submit" => DOMAIN future = 1..(sub_page - 1)
  /\ (pc[Main] \in {"collect", "reassemble", "done"} /\ data.hasMore
        /\ trueRows > PER_PAGE)
       => DOMAIN future = 1..(CeilPages - 1)
  /\ {queue[i] : i \in 1..Len(queue)} = {p \in DOMAIN future : future[p].st = "pending"}
  /\ \A i, j \in 1..Len(queue) : i # j => queue[i] # queue[j]
  /\ \A v, w \in Fetching : v # w => page[v] # page[w]

C15_Witness ==
  /\ pc[Main] = "collect"
  /\ trueRows = 2 * PER_PAGE + PER_PAGE \div 2
  /\ total_pages = 3
  /\ DOMAIN future = {1, 2}
  /\ handled = {}

\* C16: when the table is absent from the row-count mapping the coordinator
\* goes on: total_pages stays undetermined until page 0 has arrived, is then
\* ceil(rowCount / 100) of the count page 0 carries, and the run does not
\* abort for it (only for a failed page-0 request or an unusable pool size).
C16_AbsentCountDeferredToPage0 ==
  (row_count = None /\ trueRows > 0) =>
    /\ pc[Main] \in {"acq_lock", "acq_consume", "acq_sleep", "page0_req", "page0_emit"}
         => total_pages = None
    /\ pc[Main] \in {"check_more", "done"} /\ data.rowCount # None
         => total_pages = CeilPages
    /\ pc[Main] = "aborted"
         => data = NoData \/ data.rowCount = None \/ concurrency <= 0
    /\ pc[Main] # "counts_req"

C16_Witness ==
  /\ row_count = None
  /\ pc[Main] = "check_more"
  /\ data.hasMore
  /\ total_pages = 3
  /\ Len(emitted) = PER_PAGE

\* C17: the coordinator aborts only when step 1 (the row-count request) or
\* step 2 (the page-0 request) failed, a failure of either is fatal, and a
\* failed later page never aborts.
C17_AbortOnlyOnStep1OrStep2 ==
  /\ pc[Main] = "aborted" => row_count = Unbound \/ data = NoData
  /\ pc[Main] \in {"page0_req", "page0_emit", "check_more"} => row_count # Unbound
  /\ FailedPages # {} => pc[Main] # "aborted"

\* C18: a call with row_limit = C on a table of more than C rows ends
\* normally with exactly the first C records, in order.
C18_RowCapYieldsExactlyC ==
  (row_limit # None /\ trueRows > row_limit /\ pc[Main] \in {"done", "aborted"})
    => /\ pc[Main] = "done"
       /\ Len(emitted) = row_limit
       /\ \A i \in 1..Len(emitted) : emitted[i] = i - 1

\* the first k entries of tables_to_load that the API lists, in order
Existing(k) ==
  SelectSeq(SubSeq(tables_to_load, 1, k), LAMBDA t : InSeq(t, all_tables))

\* main is between the return of pipeline.run and the summary entry
InVerification ==
  \/ pc[Main] \in {"m_counts_req", "m_probe_req", "m_db"}
  \/ /\ pc[Main] \in {"acq_lock", "acq_consume", "acq_sleep"}
     /\ ret[Main] \in {"m_counts_req", "m_probe_req"}

\* entries of tables_to_load whose run has been started
Started == IF InVerification THEN ti ELSE ti - 1

\* C19: whatever a table's fetch, write or verification does, the loop goes
\* on: the runs started so far are exactly the listed tables among the
\* entries handled so far, one run each, in order; main leaves the loop only
\* when every entry was handled; and once in the loop it always reaches the
\* summary.
C19_NextTableWhateverTheOutcome ==
  /\ [](/\ attempts = Existing(Started)
        /\ pc[Main] \in {"m_summary", "m_details", "m_details_failed"}
             => ti = Len(tables_to_load) + 1
        /\ pc[Main] = "m_exit"
             => \/ ~args_all /\ args_tables = <<>>
                \/ ti = Len(tables_to_load) + 1)
  /\ (pc[Main] = "m_loop") ~> (pc[Main] = "m_details")

C19_Witness ==
  /\ pc[Main] = "m_details"
  /\ loadErrors = {1}
  /\ Len(attempts) = 2
  /\ attempts[2] # attempts[1]
  /\ table_summaries[attempts[2]].verification = <<"ERROR">>

\* C20: a requested name the API does not list is reported and skipped: no
\* run (fetch and write) is started for it, it gets no summary entry and is
\* not counted as successful, and the other entries are still handled.
C20_UnknownTableSkipped ==
  /\ \A k \in 1..(ti - 1) :
       ~InSeq(tables_to_load[k], all_tables)
         => /\ k \in notFound
            /\ ~InSeq(tables_to_load[k], attempts)
            /\ tables_to_load[k] \notin DOMAIN table_summaries
  /\ \A k \in notFound : ~InSeq(tables_to_load[k], all_tables)
  /\ successful_tables =
       Len(attempts) - Cardinality(loadErrors) - (IF InVerification THEN 1 ELSE 0)
  /\ pc[Main] \in {"m_summary", "m_details", "m_details_failed"}
       => attempts = Existing(Len(tables_to_load))

C20_Witness ==
  /\ pc[Main] = "m_details"
  /\ Len(tables_to_load) = 2
  /\ notFound = {1}
  /\ attempts = <<tables_to_load[2]>>
  /\ successful_tables = 1

\* C21: when the authoritative count of a table is known and the store could
\* be counted, the status written to the summary is OK exactly when the two
\* counts are equal, and otherwise it is the mismatch message carrying the
\* expected (API) and the actual (stored) count.
C21_StatusOkIffCountsEqual ==
  [][ ( /\ pc[Main] = "m_db"
        /\ pc'[Main] # "m_db"
        /\ api_row_count # None
        /\ table_summaries'[tables_to_load[ti]].rows # None )
      => LET e == table_summaries'[tables_to_load[ti]]
         IN  /\ e.verification = <<"OK">> <=> e.rows = api_row_count
             /\ e.rows # api_row_count =>
                   e.verification = <<"WARNING", api_row_count, e.rows>> ]_vars

C21_Witness ==
  \E t \in DOMAIN table_summaries : \E u \in DOMAIN table_summaries :
    /\ table_summaries[t].verification =
         <<"WARNING", trueRows, trueRows - PER_PAGE>>
    /\ table_summaries[t].rows = trueRows - PER_PAGE
    /\ table_summaries[u].verification = <<"OK">>
    /\ table_summaries[u].rows = trueRows

\* C22: when the authoritative count of a table could not be had (the table
\* is absent from the row counts, or the request failed and the fallback probe
\* gave none), the status written to the summary is neither OK nor a
\* mismatch.
C22_UnknownWhenNoAuthoritativeCount ==
  [][ ( /\ pc[Main] = "m_db"
        /\ pc'[Main] # "m_db"
        /\ api_row_count = None )
      => LET e == table_summaries'[tables_to_load[ti]]
         IN  /\ e.verification # <<"OK">>
             /\ e.verification[1] # "WARNING" ]_vars

\* C23: every failure of a table's run is turned into a summary entry: once
\* the loop is over, every entry of tables_to_load that the API lists has an
\* entry in table_summaries, whether its run succeeded or failed.
C23_EveryListedTableHasSummary ==
  pc[Main] \in {"m_summary", "m_details", "m_details_failed"} =>
    \A k \in 1..Len(tables_to_load) :
      InSeq(tables_to_load[k], all_tables) =>
        tables_to_load[k] \in DOMAIN table_summaries

\* the row-count request of the coordinator has failed and no page task was
\* submitted yet
DiscoveryFailed ==
  /\ row_count = Unbound
  /\ DOMAIN future = {}
  /\ \/ pc[Main] \in {"page0_req", "page0_emit", "check_more", "done"}
     \/ /\ pc[Main] \in {"acq_lock", "acq_consume", "acq_sleep"}
        /\ ret[Main] = "page0_req"

\* C24: a failure of the bulk row-count request is fatal: after it no page
\* request is issued, no page is fetched and no record is emitted.
C24_DiscoveryFailureIsFatal ==
  DiscoveryFailed =>
    /\ pc[Main] \notin {"page0_req", "page0_emit", "check_more", "done"}
    /\ data = NoData
    /\ emitted = <<>>

\* the place of a name in a list: the index of its first occurrence
PlaceIn(x, sq) == CHOOSE i \in 1..Len(sq) : sq[i] = x /\ \A j \in 1..(i - 1) : sq[j] # x

\* C25: under --all, tables_to_load holds every listed name exactly once and
\* no other name; the names of important_tables that are listed come first,
\* in the order of important_tables, and the other names follow in the order
\* of the listing.
C25_PriorityThenDiscoveryOrder ==
  (args_all /\ pc[Main] = "m_loop") =>
    LET L == tables_to_load
        imp(x) == InSeq(x, important_tables)
    IN  /\ \A x \in 1..MaxNames :
              Cardinality({i \in 1..Len(L) : L[i] = x}) =
                (IF InSeq(x, all_tables) THEN 1 ELSE 0)
        /\ \A i \in 1..Len(L) : \A j \in (i + 1)..Len(L) :
              /\ ~(~imp(L[i]) /\ imp(L[j]))
              /\ (imp(L[i]) /\ imp(L[j])) =>
                    PlaceIn(L[i], important_tables) < PlaceIn(L[j], important_tables)
              /\ (~imp(L[i]) /\ ~imp(L[j])) =>
                    PlaceIn(L[i], all_tables) < PlaceIn(L[j], all_tables)

C25_Witness ==
  /\ pc[Main] = "m_loop"
  /\ all_tables = <<4, 1, 3, 2>>
  /\ tables_to_load = <<2, 1, 4, 3>>

\* main is inside the call of the resource for entry ti of tables_to_load
InResource ==
  \/ pc[Main] \in {"start", "counts_req", "page0_req", "page0_emit",
                    "check_more", "submit", "collect", "reassemble", "done",
                    "aborted"}
  \/ /\ pc[Main] \in {"acq_lock", "acq_consume", "acq_sleep"}
     /\ ret[Main] \in {"counts_req", "page0_req"}

\* C26: the tables are handled strictly one after the other: page tasks are
\* queued or running only while main is in the fan-out of the current table,
\* so when main leaves the resource every page fetch of that table is over;
\* and while the resource runs for one entry, every earlier listed entry has
\* been written and verified (it has its summary entry) or has failed.
C26_OneTableAtATime ==
  /\ \A w \in Workers : pc[w] # "idle" => pc[Main] \in {"submit", "collect"}
  /\ pc[Main] \notin {"submit", "collect"} =>
       /\ queue = <<>>
       /\ \A p \in DOMAIN future : Finished(p)
  /\ (InResource /\ tables_to_load # <<>>) =>
       /\ Len(attempts) = Len(Existing(ti))
       /\ \A k \in 1..(ti - 1) :
            InSeq(tables_to_load[k], all_tables) =>
              \/ tables_to_load[k] \in DOMAIN table_summaries
              \/ k \in loadErrors

C26_Witness ==
  /\ ti = 2
  /\ pc[Main] = "collect"
  /\ \E w \in Workers : pc[w] = "request"
  /\ retryPages # {}
  /\ tables_to_load[1] \in DOMAIN table_summaries
  /\ table_summaries[tables_to_load[1]].rows = trueRows

\* C27: with a rate limit of zero or less the run stops with an error at its
\* first acquire(): no acquire() is ever granted, so no request is issued
\* (throttled or not), nobody sleeps, the lock is not left held, and main
\* ends in the uncaught exception instead of hanging.
C27_NonPositiveRateFailsFast ==
  /\ [](Cap <= 0 =>
         /\ nAcq[Main] = 0
         /\ lock = {}
         /\ pc[Main] \in {"m_start", "acq_lock", "acq_raised", "m_list_failed",
                           "m_exit"}
         /\ pc[Main] = "m_exit" => ~args_all /\ args_tables = <<>>
         /\ all_tables = <<>>
         /\ attempts = <<>>)
  /\ (Cap <= 0 /\ pc[Main] = "acq_lock") ~> (pc[Main] = "m_list_failed")

C27_Witness ==
  /\ Cap <= 0
  /\ pc[Main] = "m_list_failed"
  /\ nAcq[Main] = 0
  /\ tokens = Cap

\* C28: with a concurrency of zero or less the call ends with an error before
\* any network activity: no acquire() is granted to the coordinator, no
\* row-count or page request is reached, nothing is fetched or emitted, and
\* the call does not end normally.
C28_NoRequestWithoutConcurrency ==
  concurrency <= 0 =>
    /\ nAcq[Main] = 0
    /\ pc[Main] \notin {"counts_req", "page0_req", "done"}
    /\ data = NoData
    /\ emitted = <<>>

\* the pages whose future was yielded by as_completed with a payload
ReturnedHandled == {p \in handled : future[p].st = "returned"}

\* C29: the progress display only observes.  With show_progress on or off,
\* the bookkeeping of the coordinator and the records emitted so far are the
\* same function of the responses received (page 0 first, then the buffered
\* pages below emit_page in ascending order), every page from 1 to the last
\* is requested once the fan-out is complete; the flag decides only the
\* form of the progress line, which in both forms shows the number of pages
\* completed out of total_pages.
C29_ProgressOnlyObserves ==
  /\ pc[Main] \in {"collect", "reassemble"} =>
       /\ completed = Cardinality(ReturnedHandled)
       /\ DOMAIN processed_pages = {0} \cup ReturnedHandled
       /\ DOMAIN future = 1..(total_pages - 1)
  /\ emitted =
       IF data = NoData \/ pc[Main] = "page0_emit" THEN <<>>
       ELSE PageRows(0, trueRows)
              \o SequentialFetch(1, emit_page - 1, ReturnedHandled, trueRows)
  /\ (progress # <<>> /\ pc[Main] # "done") =>
       /\ progress[1] = "bar" <=> (show_progress /\ total_pages \notin {None, 0})
       /\ progress[2] = completed + 1
       /\ progress[3] = total_pages
  /\ (pc[Main] = "check_more" \/ ReturnedHandled # {}) => progress # <<>>

C29_Witness ==
  /\ ~show_progress
  /\ pc[Main] = "done"
  /\ concurrency = 2
  /\ outOfOrder
  /\ Len(emitted) = trueRows
  /\ progress = <<"plain", 3, 3>>

\* C30: the exit status is non-zero when the listing of the tables failed,
\* and zero whenever the listing succeeded, whatever happened to the single
\* tables (failed run, count mismatch, verification that could not be done).
C30_ExitStatusFollowsListing ==
  /\ pc[Main] = "m_list_failed" => ExitStatus(pc[Main]) # 0
  /\ (ti = Len(tables_to_load) + 1 /\ ExitStatus(pc[Main]) # None
        /\ pc[Main] # "m_list_failed")
       => ExitStatus(pc[Main]) = 0

\* the lines printed by the exception handlers of main: "Error loading
\* {table}: {e}" for every entry whose run raised; the handlers of the
\* verification (lines 565, 574 and 590) print nothing
HandlerLines == {<<"Error loading", k>> : k \in loadErrors}

\* C31: no error is swallowed in silence: the step in which main catches the
\* failure of the verification's row-count request (and turns to the probe)
\* prints a line.
C31_CaughtErrorIsLogged ==
  [][ ( /\ pc[Main] = "m_counts_req"
        /\ pc'[Main] # "m_counts_req"
        /\ ret'[Main] = "m_probe_req" )
      => HandlerLines' # HandlerLines ]_vars

\* C32: a table whose fan-out has started runs to its end: the coordinator
\* gets from the submission of the page tasks to the end of the emission,
\* and it leaves the as_completed loop only when every submitted page task
\* has ended (returned, or raised for good) and was collected.
C32_StartedTableCompletes ==
  /\ [](pc[Main] \in {"reassemble", "done"} /\ DOMAIN future # {} =>
          /\ handled = DOMAIN future
          /\ \A p \in DOMAIN future : future[p].st \in {"returned", "raised"})
  /\ (pc[Main] = "submit") ~> (pc[Main] = "done")

C32_Witness ==
  /\ pc[Main] = "done"
  /\ concurrency = 1
  /\ Cardinality(DOMAIN future) = MaxPages - 1
  /\ FailedPages # {}
  /\ retryPages \ FailedPages # {}

\* the rows emitted so far that belong to a page above page 0
LaterRows == {i \in 1..Len(emitted) : emitted[i] >= PER_PAGE}

\* C33: the phases of the coordinator come in order: a page task exists (is
\* queued, running or ended) only after the response of page 0 was received
\* and all its records were emitted, and a record of a later page is
\* emitted only after every submitted page task has ended and was collected.
C33_PhasesInOrder ==
  /\ (DOMAIN future # {} \/ queue # <<>> \/ \E w \in Workers : pc[w] # "idle") =>
       /\ data # NoData
       /\ SubSeq(emitted, 1, Len(data.rowData)) = data.rowData
       /\ pc[Main] \in {"submit", "collect", "reassemble", "done"}
  /\ LaterRows # {} =>
       /\ pc[Main] \in {"reassemble", "done"}
       /\ handled = DOMAIN future
       /\ queue = <<>>
       /\ \A w \in Workers : pc[w] = "idle"
       /\ \A p \in DOMAIN future : future[p].st \in {"returned", "raised"}

C33_Witness ==
  /\ pc[Main] = "reassemble"
  /\ emit_page = 2
  /\ LaterRows # {}
  /\ FailedPages # {}
  /\ concurrency = MaxWorkers

\* C34: the backoff doubles: the wait that starts after the i-th failed
\* attempt of a call (i < retries) is 0.5 * 2^(i-1) seconds, that is half of
\* Cap * 2^(i-1) ticks; the call goes to its next attempt only when the wait
\* is over; and after the last failed attempt it ends at once, without a
\* wait.
C34_BackoffDoubles ==
  [][ \A t \in Workers :
        /\ (pc[t] = "request" /\ pc'[t] = "backoff") =>
             /\ nFail'[t] < retries
             /\ 2 * sleepLeft'[t] = Cap * 2 ^ (nFail'[t] - 1)
        /\ (pc[t] = "request" /\ nFail'[t] # nFail[t] /\ nFail'[t] = retries) =>
             /\ pc'[t] = "fetch_done"
             /\ sleepLeft'[t] = 0
        /\ (pc[t] = "backoff" /\ pc'[t] # "backoff") => sleepLeft[t] = 0 ]_vars

C34_Witness ==
  \E t \in Workers :
    /\ retries >= 3
    /\ pc[t] = "backoff"
    /\ nFail[t] = 2
    /\ sleepLeft[t] = Cap

\* a thread at one of these places is about to send a request to the API:
\* the listing, the row counts, page 0, an attempt for a later page, the
\* row counts of the verification and its fallback probe
RequestLabels ==
  {"m_list_req", "counts_req", "page0_req", "request", "m_counts_req",
   "m_probe_req"}

DownloadedLines ==
  (IF progress # <<>> THEN 1 ELSE 0)
    + completed
    + (IF pc[Main] = "done" /\ DOMAIN future # {} THEN 1 ELSE 0)

\* C36: with show_progress off, at most one message "Downloaded ... pages"
\* is printed for the whole table, however many pages it has.
C36_QuietPrintsAtMostOnce ==
  ~show_progress => DownloadedLines <= 1

\* C37: when a page of the table was skipped for good and the API count is
\* known and is the number of rows upstream, the status written to the
\* summary is not OK: it is the mismatch message with the API count and the
\* smaller stored count (or ERROR when the store could not be counted), and
\* the table is all the same counted as loaded successfully.
C37_SkippedPageShowsAsMismatch ==
  [][ ( /\ pc[Main] = "m_db"
        /\ pc'[Main] # "m_db"
        /\ FailedPages # {}
        /\ api_row_count = trueRows )
      => LET e == table_summaries'[tables_to_load[ti]]
         IN  /\ e.verification # <<"OK">>
             /\ e.rows # None =>
                  /\ e.rows < trueRows
                  /\ e.verification = <<"WARNING", trueRows, e.rows>>
             /\ successful_tables' = successful_tables + 1 ]_vars

C37_Witness ==
  /\ pc[Main] = "m_loop"
  /\ ti = 2
  /\ FailedPages = {1}
  /\ successful_tables = 1
  /\ table_summaries[tables_to_load[1]].verification =
       <<"WARNING", trueRows, trueRows - PER_PAGE>>

\* C38: page 0 is requested once, by the coordinator itself and outside
\* fetch_page_with_retry: the coordinator sends at most the row-count
\* request and one page-0 request, never enters an attempt loop or a
\* backoff, and when that one request fails the call is aborted with no
\* record emitted and no page task ever submitted, although the later pages
\* would be tried `retries` times.
C38_Page0SingleAttempt ==
  /\ nReq[Main] <= 2
  /\ attempt[Main] = 0
  /\ pc[Main] \notin {"fetch_loop", "request", "backoff"}
  /\ (data = NoData /\ nReq[Main] = 2) =>
       /\ pc[Main] = "aborted"
       /\ emitted = <<>>
       /\ DOMAIN future = {}
       /\ \A w \in Workers : pc[w] = "idle" /\ nReq[w] = 0

C38_Witness ==
  /\ pc[Main] = "aborted"
  /\ data = NoData
  /\ nReq[Main] = 2
  /\ retries > 1
  /\ concurrency >= 1
  /\ total_pages > 1

\* C39: when neither the counts mapping (table absent, count 0, or request
\* failed) nor page 0 gives a positive row count and page 0 says hasMore,
\* the coordinator emits the records of page 0 and then fails: it never ends
\* normally and never submits or fetches a later page.
C39_NoCountWithHasMoreAborts ==
  ( /\ data # NoData
    /\ data.hasMore
    /\ row_count \in {None, Unbound, 0}
    /\ data.rowCount \in {None, 0} )
  => /\ total_pages = None
     /\ pc[Main] \in {"page0_emit", "check_more", "aborted"}
     /\ pc[Main] # "page0_emit" => emitted = data.rowData
     /\ DOMAIN future = {} /\ queue = <<>> /\ sub_page = 1
     /\ processed_pages = <<>>
     /\ \A w \in Workers : pc[w] = "idle" /\ nReq[w] = 0

C39_Witness ==
  /\ pc[Main] = "aborted"
  /\ data.hasMore
  /\ data.rowCount = None
  /\ row_count = Unbound
  /\ total_pages = None
  /\ Len(emitted) = PER_PAGE
  /\ concurrency >= 1

\* C40: a call of fetch_page_with_retry with retries <= 0 acquires nothing
\* from the rate limiter, sends no request, raises nothing and returns None
\* instead of a (page, payload) pair.
C40_NoAttemptReturnsNone ==
  retries <= 0 =>
    \A t \in Workers :
      /\ nAcq[t] = 0 /\ nReq[t] = 0 /\ nFail[t] = 0
      /\ attempt[t] = 0
      /\ sleepLeft[t] = 0
      /\ fval[t] = <<>>
      /\ \/ pc[t] = "fetch_loop" /\ fres[t] = "none"
         \/ pc[t] = "fetch_done" /\ fres[t] = "retnone"

C40_Witness ==
  /\ retries = 0
  /\ hasLimiter
  /\ \A t \in Workers : pc[t] = "fetch_done" /\ fres[t] = "retnone" /\ nAcq[t] = 0
====
